---------------------------- MODULE Spec2Model ----------------------------
(***************************************************************************)
(* A model of batch_process_custom.py: the encoding normalizer             *)
(* (create_temp_utf8_file), the task runner (process_single_file), the     *)
(* batch driver (batch_process_multimode, cleanup_bundle_files) and the    *)
(* mode parsing of main.                                                   *)
(*                                                                         *)
(* File contents are sequences of bytes (0..255); decoded text is a        *)
(* sequence of Unicode code points.  File names are strings.  The external *)
(* converter, and the failures of the file system calls the code guards    *)
(* against, are nondeterministic choices of the environment.               *)
(***************************************************************************)
EXTENDS Integers, Sequences, FiniteSets, TLC

\* Longest text (in code points) and longest raw file (in bytes) of SpecEnc.
MaxTextLen == 3
MaxRawLen == 3
\* Most bundle files one converter run writes.
MaxNewBundles == 2
\* Most tokens of a generated --modes list.
MaxTokens == 2
\* Most events off the expected course in one run of the program: file
\* system calls that fail, converter runs that break the converter's contract.
MaxFaults == 2

None == "None"

---------------------------------------------------------------------------
(* Python's codecs, as the open() calls of create_temp_utf8_file use them. *)

\* UnicodeDecodeError: a sequence that is no text.
DecodeError == <<-1>>

BOM == 65279          \* U+FEFF
X9D == 157            \* U+009D
CR == 13
LF == 10
Utf8Bom == <<239, 187, 191>>

IsCont(b) == b >= 128 /\ b <= 191

\* The strict UTF-8 decoder: shortest forms only, no surrogates, at most
\* U+10FFFF.  Yields the code points of b[i..], or DecodeError.
RECURSIVE Utf8DecodeFrom(_, _)
Utf8DecodeFrom(b, i) ==
  IF i > Len(b) THEN <<>>
  ELSE
    LET b0 == b[i]
        n == IF b0 < 128 THEN 1
             ELSE IF b0 >= 194 /\ b0 <= 223 THEN 2
             ELSE IF b0 >= 224 /\ b0 <= 239 THEN 3
             ELSE IF b0 >= 240 /\ b0 <= 244 THEN 4
             ELSE 0
        wellFormed ==
          /\ n > 0
          /\ i + n - 1 <= Len(b)
          /\ \A k \in 1..(n - 1) : IsCont(b[i + k])
          /\ (b0 = 224 => b[i + 1] >= 160)
          /\ (b0 = 237 => b[i + 1] <= 159)
          /\ (b0 = 240 => b[i + 1] >= 144)
          /\ (b0 = 244 => b[i + 1] <= 143)
    IN IF ~wellFormed THEN DecodeError
       ELSE
         LET cp == CASE n = 1 -> b0
                     [] n = 2 -> (b0 - 192) * 64 + (b[i + 1] - 128)
                     [] n = 3 -> (b0 - 224) * 4096 + (b[i + 1] - 128) * 64
                                 + (b[i + 2] - 128)
                     [] n = 4 -> (b0 - 240) * 262144 + (b[i + 1] - 128) * 4096
                                 + (b[i + 2] - 128) * 64 + (b[i + 3] - 128)
             rest == Utf8DecodeFrom(b, i + n)
         IN IF rest = DecodeError THEN DecodeError ELSE <<cp>> \o rest

Utf8Decode(b) == Utf8DecodeFrom(b, 1)

\* utf-8-sig, as its incremental decoder reads a file: one leading encoded
\* byte order mark is skipped; a file that is only the first one or two bytes
\* of the mark is held back as a possible mark and decodes to nothing.
Utf8SigDecode(b) ==
  IF Len(b) < 3 /\ b = SubSeq(Utf8Bom, 1, Len(b)) THEN <<>>
  ELSE IF Len(b) >= 3 /\ SubSeq(b, 1, 3) = Utf8Bom
       THEN Utf8DecodeFrom(b, 4)
       ELSE Utf8DecodeFrom(b, 1)

\* latin-1: every byte is the code point of the same number.
Latin1Decode(b) == b

\* cp1252 (and its alias windows-1252): bytes 0x80..0x9F map to the table
\* below; 0x81, 0x8D, 0x8F, 0x90 and 0x9D are undefined.
Cp1252High ==
  <<8364, 0, 8218, 402, 8222, 8230, 8224, 8225,
    710, 8240, 352, 8249, 338, 0, 381, 0,
    0, 8216, 8217, 8220, 8221, 8226, 8211, 8212,
    732, 8482, 353, 8250, 339, 0, 382, 376>>

Cp1252Decode(b) ==
  IF \E i \in 1..Len(b) : b[i] >= 128 /\ b[i] <= 159 /\ Cp1252High[b[i] - 127] = 0
  THEN DecodeError
  ELSE [i \in 1..Len(b) |->
          IF b[i] >= 128 /\ b[i] <= 159 THEN Cp1252High[b[i] - 127] ELSE b[i]]

\* errors='replace' never fails; with latin-1 no byte is undecodable.
Latin1DecodeReplace(b) == b

Decode(encoding, b) ==
  CASE encoding = "utf-8-sig" -> Utf8SigDecode(b)
    [] encoding = "utf-8" -> Utf8Decode(b)
    [] encoding = "latin-1" -> Latin1Decode(b)
    [] encoding = "cp1252" -> Cp1252Decode(b)
    [] encoding = "windows-1252" -> Cp1252Decode(b)

\* A file opened for reading in text mode translates "\r\n" and "\r" to "\n".
RECURSIVE UniversalNewlines(_)
UniversalNewlines(t) ==
  IF t = <<>> THEN <<>>
  ELSE IF Head(t) = CR
       THEN IF Len(t) >= 2 /\ t[2] = LF
            THEN <<LF>> \o UniversalNewlines(SubSeq(t, 3, Len(t)))
            ELSE <<LF>> \o UniversalNewlines(Tail(t))
       ELSE <<Head(t)>> \o UniversalNewlines(Tail(t))

\* open(original_file, 'r', encoding=encoding).read()
ReadText(encoding, b) ==
  LET t == Decode(encoding, b)
  IN IF t = DecodeError THEN DecodeError ELSE UniversalNewlines(t)

\* The UTF-8 encoder of open(temp_file, 'w', encoding='utf-8') (POSIX: "\n"
\* is written as it is).
RECURSIVE Utf8Encode(_)
Utf8Encode(t) ==
  IF t = <<>> THEN <<>>
  ELSE
    LET c == Head(t)
        enc == IF c < 128 THEN <<c>>
               ELSE IF c < 2048 THEN <<192 + (c \div 64), 128 + (c % 64)>>
               ELSE IF c < 65536
                    THEN <<224 + (c \div 4096), 128 + ((c \div 64) % 64), 128 + (c % 64)>>
               ELSE <<240 + (c \div 262144), 128 + ((c \div 4096) % 64),
                      128 + ((c \div 64) % 64), 128 + (c % 64)>>
    IN enc \o Utf8Encode(Tail(t))

\* str.replace(ch, ''): every occurrence of ch is removed.
RECURSIVE Replace(_, _)
Replace(t, ch) ==
  IF t = <<>> THEN <<>>
  ELSE IF Head(t) = ch THEN Replace(Tail(t), ch)
       ELSE <<Head(t)>> \o Replace(Tail(t), ch)

---------------------------------------------------------------------------
(* create_temp_utf8_file *)

\* A mutant of encodings_to_try: cp1252 is tried before latin-1.
encodings_cp1252_first == <<"utf-8-sig", "utf-8", "cp1252", "latin-1", "windows-1252">>

encodings_to_try == <<"utf-8-sig", "utf-8", "latin-1", "cp1252", "windows-1252">>

\* The for loop: the index of the first candidate that decodes b, 0 if none.
RECURSIVE FirstDecoding(_, _)
FirstDecoding(b, i) ==
  IF i > Len(encodings_to_try) THEN 0
  ELSE IF ReadText(encodings_to_try[i], b) # DecodeError THEN i
       ELSE FirstDecoding(b, i + 1)

\* The text read from the original: by the first candidate, else lossily.
DecodedContent(b) ==
  LET i == FirstDecoding(b, 1)
  IN IF i # 0 THEN ReadText(encodings_to_try[i], b)
     ELSE UniversalNewlines(Latin1DecodeReplace(b))

\* A mutant of CleanContent: only a leading byte order mark is removed.
CleanContentLeadingBom(content) ==
  Replace(IF content # <<>> /\ Head(content) = BOM THEN Tail(content) ELSE content, X9D)

CleanContent(content) == Replace(Replace(content, X9D), BOM)

\* The bytes create_temp_utf8_file writes for an original holding b.
ScratchBytes(b) == Utf8Encode(CleanContent(DecodedContent(b)))

---------------------------------------------------------------------------
(* Strings, paths and the file system. *)

Char(s, i) == SubSeq(s, i, i)

\* str.split(sep) for a one-character separator.
RECURSIVE SplitFrom(_, _, _, _)
SplitFrom(s, sep, start, i) ==
  IF i > Len(s) THEN <<SubSeq(s, start, Len(s))>>
  ELSE IF Char(s, i) = sep
       THEN <<SubSeq(s, start, i - 1)>> \o SplitFrom(s, sep, i + 1, i + 1)
       ELSE SplitFrom(s, sep, start, i + 1)

Split(s, sep) == SplitFrom(s, sep, 1, 1)

Whitespace == {" ", "\t", "\n", "\r", "\f"}

\* str.strip(): leading and trailing whitespace removed.
RECURSIVE LStrip(_)
LStrip(s) ==
  IF Len(s) > 0 /\ Char(s, 1) \in Whitespace THEN LStrip(SubSeq(s, 2, Len(s))) ELSE s

RECURSIVE RStrip(_)
RStrip(s) ==
  IF Len(s) > 0 /\ Char(s, Len(s)) \in Whitespace
  THEN RStrip(SubSeq(s, 1, Len(s) - 1)) ELSE s

Strip(s) == RStrip(LStrip(s))

UpperLetters == "ABCDEFGHIJKLMNOPQRSTUVWXYZ"
LowerLetters == "abcdefghijklmnopqrstuvwxyz"

LowerChar(c) ==
  IF \E i \in 1..Len(UpperLetters) : Char(UpperLetters, i) = c
  THEN Char(LowerLetters, CHOOSE i \in 1..Len(UpperLetters) : Char(UpperLetters, i) = c)
  ELSE c

\* str.lower()
RECURSIVE Lower(_)
Lower(s) ==
  IF Len(s) = 0 THEN s ELSE LowerChar(Char(s, 1)) \o Lower(SubSeq(s, 2, Len(s)))

EndsWith(s, suffix) ==
  Len(s) >= Len(suffix) /\ SubSeq(s, Len(s) - Len(suffix) + 1, Len(s)) = suffix

\* Path.stem: the name without its last suffix (a leading or a trailing dot
\* starts no suffix).
Stem(name) ==
  LET dots == {i \in 1..Len(name) : Char(name, i) = "."}
      last == IF dots = {} THEN 0 ELSE CHOOSE i \in dots : \A j \in dots : j <= i
  IN IF last > 1 /\ last < Len(name) THEN SubSeq(name, 1, last - 1) ELSE name

\* s[:n]
Truncate(s, n) == IF Len(s) > n THEN SubSeq(s, 1, n) ELSE s

\* A directory is a function from the names of its files to their contents.
NoFiles == [n \in {} |-> <<>>]
Put(dir, name, content) ==
  [n \in DOMAIN dir \cup {name} |-> IF n = name THEN content ELSE dir[n]]
Remove(dir, name) == [n \in DOMAIN dir \ {name} |-> dir[n]]

\* The orders a directory listing may come in.
Orders(S) ==
  {o \in [1..Cardinality(S) -> S] : \A i, j \in 1..Cardinality(S) : o[i] = o[j] => i = j}

input_dir == "input_texts"
output_dir == "output_stix"
txt2stix_output_dir == "output"

\* os.path.join(dir, name), str(Path(dir) / name)
PathJoin(dir, name) == dir \o "/" \o name

\* original_file.parent / f"temp_{original_file.name}"
TempName(name) == "temp_" \o name

---------------------------------------------------------------------------
(* The state. *)

VARIABLES
  pc,               \* where the program is
  args,             \* the parsed command line
  additional_args,  \* main's additional_args: (key, value) pairs in insertion order
  mode_tokens,      \* how args.modes was put together (no program state)
  console,          \* the warnings, errors, notes and the summary printed
  selected_modes,   \* main's selected_modes
  fs,               \* the input directory
  src,              \* how the file of SpecEnc was written (no program state)
  outdir_exists,    \* whether output_dir exists
  outdir,           \* output_dir: file name -> the bundle it holds
  tool_output,      \* the bundle files in the converter's own directory
  cwd_bundles,      \* bundle files in the working directory
  txt_files,        \* batch_process_multimode's txt_files
  fi, mi,           \* the position of the two for loops
  total_tasks, completed, success_count, failed_tasks,
  task,             \* the locals and the outcome of the last process_single_file
  runs,             \* the tasks run so far and what each returned (no program state)
  faults            \* the events off the expected course so far (no program state)

vars ==
  <<pc, args, additional_args, mode_tokens, console, selected_modes, fs, src, outdir_exists,
    outdir, tool_output, cwd_bundles, txt_files, fi, mi, total_tasks, completed,
    success_count, failed_tasks, task, runs, faults>>

---------------------------------------------------------------------------
(* main: the preset table and the parsing of --modes. *)

NameLimit == 72

PRESET_MODES ==
  ("standard" :> <<"_txt2stix+standard", "standard", None>>)
  @@ ("gpt4o" :> <<"_txt2stix+gpt4o", "ai", "openai:gpt-4o">>)
  @@ ("gpt4o-mini" :> <<"_txt2stix+gpt4o-mini", "ai", "openai:gpt-4o-mini">>)
  @@ ("claude" :> <<"_txt2stix+claude", "ai", "anthropic:claude-3-5-sonnet-latest">>)
  @@ ("gemini" :> <<"_txt2stix+gemini", "ai", "gemini:models/gemini-1.5-pro-latest">>)
  @@ ("deepseek" :> <<"_txt2stix+deepseek", "ai", "deepseek:deepseek-chat">>)

\* A mutant of NormalizeModeName: the case is kept.
NormalizeModeNameNoLower(mode_name) == Strip(mode_name)

\* mode_name.strip().lower()
NormalizeModeName(mode_name) == Lower(Strip(mode_name))

Warning(mode_name) == [kind |-> "warning", about |-> mode_name]

\* The loop over args.modes.split(','): the presets selected, in order, and
\* the warnings printed.
RECURSIVE ParseModes(_)
ParseModes(tokens) ==
  IF tokens = <<>> THEN [selected |-> <<>>, printed |-> <<>>]
  ELSE
    LET mode_name == NormalizeModeName(Head(tokens))
        rest == ParseModes(Tail(tokens))
    IN IF mode_name \in DOMAIN PRESET_MODES
       THEN [selected |-> <<PRESET_MODES[mode_name]>> \o rest.selected,
             printed |-> rest.printed]
       ELSE [selected |-> rest.selected,
             printed |-> <<Warning(mode_name)>> \o rest.printed]

\* The note on API keys: one entry per selected AI mode.
ApiKeyNote(modes) ==
  LET ai_modes == SelectSeq(modes, LAMBDA m : m[2] = "ai")
  IN IF ai_modes = <<>> THEN <<>>
     ELSE <<[kind |-> "note", about |-> [i \in 1..Len(ai_modes) |-> ai_modes[i][3]]]>>

\* The truth value of args.confidence: not given (None) and 0 are false.
ConfidenceSet(confidence) == confidence.given /\ confidence.value # 0

\* The additional arguments main forwards.
BuildAdditionalArgs(a) ==
  (IF a.tlp_level # "clear" THEN <<<<"tlp_level", a.tlp_level>>>> ELSE <<>>)
  \o (IF ConfidenceSet(a.confidence) THEN <<<<"confidence", a.confidence.value>>>> ELSE <<>>)
  \o (IF a.labels # None /\ a.labels # "" THEN <<<<"labels", a.labels>>>> ELSE <<>>)

\* main, up to the call of batch_process_multimode.  Of what the program
\* prints the model keeps the warnings, the error, the note on API keys, the
\* "no txt files" line and the final summary.
Main ==
  /\ pc = "main"
  /\ LET parsed == ParseModes(Split(args.modes, ","))
     IN /\ selected_modes' = parsed.selected
        /\ IF parsed.selected = <<>>
           THEN /\ console' = console \o parsed.printed
                                \o <<[kind |-> "error", about |-> "No valid processing modes selected"]>>
                /\ pc' = "done"
                /\ UNCHANGED additional_args
           ELSE /\ console' = console \o parsed.printed \o ApiKeyNote(parsed.selected)
                /\ additional_args' = BuildAdditionalArgs(args)
                /\ pc' = "batch"
  /\ UNCHANGED <<args, mode_tokens, fs, src, outdir_exists, outdir, tool_output,
                 cwd_bundles, txt_files, fi, mi, total_tasks, completed,
                 success_count, failed_tasks, task, runs, faults>>

---------------------------------------------------------------------------
(* batch_process_multimode, up to the loops. *)

\* Path(input_dir).glob("*.txt")
GlobTxt(dir) == {n \in DOMAIN dir : EndsWith(n, ".txt")}

BatchStart ==
  /\ pc = "batch"
  /\ outdir_exists' = TRUE
  /\ \E order \in Orders(GlobTxt(fs)) :
       /\ txt_files' = order
       /\ IF order = <<>>
          THEN /\ console' = Append(console, [kind |-> "info", about |-> "No txt files found"])
               /\ pc' = "done"
               /\ UNCHANGED <<total_tasks, completed, success_count, failed_tasks, fi, mi>>
          ELSE /\ total_tasks' = Len(order) * Len(selected_modes)
               /\ completed' = 0
               /\ success_count' = 0
               /\ failed_tasks' = <<>>
               /\ fi' = 1
               /\ mi' = 1
               /\ pc' = IF selected_modes = <<>> THEN "sweep" ELSE "task_begin"
               /\ UNCHANGED console
  /\ UNCHANGED <<args, additional_args, mode_tokens, selected_modes, fs, src, outdir, tool_output,
                 cwd_bundles, task, runs, faults>>

---------------------------------------------------------------------------
(* process_single_file *)

\* create_temp_utf8_file on the directory dir.  io is what the file system
\* does: "ok"; "open_error", an open() that fails; "write_error", a write
\* that fails after the scratch file was opened (created or truncated).
\* A missing original fails the first open().
create_temp_utf8_file(dir, original_file, io) ==
  LET temp_file == TempName(original_file)
  IN IF original_file \notin DOMAIN dir \/ io = "open_error"
     THEN [raised |-> TRUE, temp_file |-> None, dir |-> dir]
     ELSE IF io = "write_error"
          THEN [raised |-> TRUE, temp_file |-> None, dir |-> Put(dir, temp_file, <<>>)]
          ELSE [raised |-> FALSE, temp_file |-> temp_file,
                dir |-> Put(dir, temp_file, ScratchBytes(dir[original_file]))]

\* A mutant of ExistingBundles: the snapshot is empty.
ExistingBundlesEmpty(current_files) == {}

\* set(glob.glob(os.path.join(txt2stix_output_dir, "bundle--*.json")))
ExistingBundles(current_files) == current_files

\* A mutant of NewFiles: the snapshot is not taken off.
NewFilesNoDifference(existing_files, current_files) == current_files

\* current_files - existing_files
NewFiles(existing_files, current_files) == current_files \ existing_files

\* find_new_bundle_file: the values it may return (the first of a set is
\* any of its elements).
find_new_bundle_file(existing_files, current_files) ==
  LET new_files == NewFiles(existing_files, current_files)
  IN IF new_files = {} THEN {None} ELSE new_files

\* A mutant of NewFilename: the name cut as for --name.
NewFilenameTruncated(file_name, mode_suffix) ==
  Truncate(file_name, NameLimit) \o mode_suffix \o ".json"

\* f"{file_name}{mode_suffix}.json"
NewFilename(file_name, mode_suffix) == file_name \o mode_suffix \o ".json"

Digits == "0123456789"

\* str(n) for a natural number
RECURSIVE Str(_)
Str(n) ==
  IF n < 10 THEN Char(Digits, n + 1) ELSE Str(n \div 10) \o Char(Digits, (n % 10) + 1)

\* [f"--{arg}", str(value)] for each additional argument (none of them is
\* None: main sets only those given).
ForwardedArgs(extra) ==
  [i \in 1..Len(extra) |->
     <<"--" \o extra[i][1],
       IF extra[i][1] = "confidence" THEN Str(extra[i][2]) ELSE extra[i][2]>>]

\* The command line of the converter.
BuildCmd(txt_file_to_use, file_name, mode, extractions, extra) ==
  [input_file |-> txt_file_to_use,
   name |-> Truncate(file_name, NameLimit),
   relationship_mode |-> mode[2],
   use_extractions |-> IF extractions # None /\ extractions # "" THEN extractions ELSE None,
   ai_settings |-> IF mode[3] # None /\ mode[2] = "ai" THEN mode[3] ELSE None,
   forwarded |-> ForwardedArgs(extra)]

NoTask ==
  [txt_file |-> None, mode_suffix |-> None, file_name |-> None, temp_file |-> None,
   cmd |-> None, existing_bundles |-> {}, outdir_before |-> NoFiles,
   run |-> None, new_bundles |-> {}, bundle_file |-> None, rename_failed |-> FALSE,
   unlink_failed |-> FALSE, ret |-> None]

IoOutcomes(original_file) ==
  IF original_file \in DOMAIN fs /\ faults < MaxFaults
  THEN {"ok", "open_error", "write_error"} ELSE {"ok"}

\* The loop body up to the snapshot of the converter's directory: the
\* scratch copy, the command line, existing_bundles.
TaskBegin ==
  /\ pc = "task_begin"
  /\ LET txt_file == txt_files[fi]
         mode == selected_modes[mi]
         file_name == Stem(txt_file)
     IN \E io \in IoOutcomes(txt_file) :
          LET made == create_temp_utf8_file(fs, txt_file, io)
              txt_file_to_use ==
                IF made.raised THEN PathJoin(input_dir, txt_file)
                ELSE PathJoin(input_dir, made.temp_file)
          IN /\ fs' = made.dir
             /\ faults' = IF io = "ok" THEN faults ELSE faults + 1
             /\ task' = [NoTask EXCEPT
                           !.txt_file = txt_file,
                           !.mode_suffix = mode[1],
                           !.file_name = file_name,
                           !.temp_file = made.temp_file,
                           !.cmd = BuildCmd(txt_file_to_use, file_name, mode,
                                          args.extractions, additional_args),
                           !.existing_bundles = ExistingBundles(tool_output),
                           !.outdir_before = outdir]
  /\ completed' = completed + 1
  /\ pc' = "task_run"
  /\ UNCHANGED <<args, additional_args, mode_tokens, console, selected_modes, src, outdir_exists,
                 outdir, tool_output, cwd_bundles, txt_files, fi, mi, total_tasks,
                 success_count, failed_tasks, runs>>

\* How a converter run may end: with exit status zero or not, and with
\* output that decodes as text or not.
RunOutcomes == [returncode_zero : BOOLEAN, output_decodes : BOOLEAN]

\* subprocess.run(cmd, capture_output=True, text=True, check=True): what it
\* raises, None if it returns.  The output is decoded before the status is
\* looked at.
RunRaises(run) ==
  IF ~run.output_decodes THEN "UnicodeDecodeError"
  ELSE IF ~run.returncode_zero THEN "CalledProcessError"
  ELSE None

\* The bundle files the completed-th converter run writes: fresh names.
FreshBundles(k) == {<<completed, j>> : j \in 1..k}

\* The converter's assumed contract: on success one new bundle file.
OnContract(run, k) == run.returncode_zero /\ run.output_decodes /\ k = 1

\* subprocess.run(cmd, ...): the converter writes any number of new bundle
\* files into its directory and ends in any way.
RunConverter ==
  /\ pc = "task_run"
  /\ \E run \in RunOutcomes, k \in 0..MaxNewBundles :
       LET off == IF OnContract(run, k) THEN 0 ELSE 1
       IN /\ faults + off <= MaxFaults
          /\ faults' = faults + off
          /\ tool_output' = tool_output \cup FreshBundles(k)
          /\ task' = [task EXCEPT !.run = run, !.new_bundles = FreshBundles(k)]
  /\ pc' = "task_finish"
  /\ UNCHANGED <<args, additional_args, mode_tokens, console, selected_modes, fs, src,
                 outdir_exists, outdir, cwd_bundles, txt_files, fi, mi, total_tasks,
                 completed, success_count, failed_tasks, runs>>

\* The try block after subprocess.run: what it returns, or that it raised, and
\* the two directories afterwards.
AfterRun(run, bundle_file, rename_ok) ==
  IF RunRaises(run) # None
  THEN [raised |-> FALSE, ret |-> <<FALSE, None>>, tool_output |-> tool_output,
        outdir |-> outdir]
  ELSE IF bundle_file = None
       THEN [raised |-> FALSE, ret |-> <<FALSE, None>>, tool_output |-> tool_output,
             outdir |-> outdir]
       ELSE IF ~rename_ok
            THEN [raised |-> TRUE, ret |-> None, tool_output |-> tool_output,
                  outdir |-> outdir]
            ELSE LET new_filename == NewFilename(task.file_name, task.mode_suffix)
                 IN [raised |-> FALSE,
                     ret |-> <<TRUE, PathJoin(output_dir, new_filename)>>,
                     tool_output |-> tool_output \ {bundle_file},
                     outdir |-> Put(outdir, new_filename, bundle_file)]

\* The finally block.
Finally(dir, temp_file, unlink_ok) ==
  IF temp_file # None /\ temp_file \in DOMAIN dir /\ unlink_ok
  THEN Remove(dir, temp_file) ELSE dir

\* A mutant of CountSuccess: every task counts.
CountSuccessAlways(success, count) == count + 1

\* success_count += 1, or not
CountSuccess(success, count) == IF success THEN count + 1 ELSE count

\* failed_tasks.append((str(txt_file), mode_suffix)), or not
RecordFailure(success, failed, txt_file, mode_suffix) ==
  IF success THEN failed ELSE Append(failed, <<PathJoin(input_dir, txt_file), mode_suffix>>)

\* The rest of process_single_file and of the loop body: discovery, the
\* move, the finally block, the counting, and the step of the two loops.  An
\* exception of the move leaves process_single_file, the loops and main.
TaskFinish ==
  /\ pc = "task_finish"
  /\ \E bundle_file \in (IF RunRaises(task.run) = None
                        THEN find_new_bundle_file(task.existing_bundles, tool_output)
                        ELSE {None}),
        rename_ok \in BOOLEAN, unlink_ok \in BOOLEAN :
       LET renames == RunRaises(task.run) = None /\ bundle_file # None
           unlinks == task.temp_file # None /\ task.temp_file \in DOMAIN fs
           failed == (IF renames /\ ~rename_ok THEN 1 ELSE 0)
                     + (IF unlinks /\ ~unlink_ok THEN 1 ELSE 0)
           after == AfterRun(task.run, bundle_file, rename_ok)
           success == ~after.raised /\ after.ret[1]
       IN /\ (~renames => rename_ok)
          /\ (~unlinks => unlink_ok)
          /\ faults + failed <= MaxFaults
          /\ faults' = faults + failed
          /\ tool_output' = after.tool_output
          /\ outdir' = after.outdir
          /\ fs' = Finally(fs, task.temp_file, unlink_ok)
          /\ task' = [task EXCEPT !.bundle_file = bundle_file,
                                  !.rename_failed = renames /\ ~rename_ok,
                                  !.unlink_failed = unlinks /\ ~unlink_ok,
                                  !.ret = IF after.raised THEN "raised" ELSE after.ret]
          /\ runs' = Append(runs, [txt_file |-> task.txt_file,
                                   mode_suffix |-> task.mode_suffix,
                                   bundle_file |-> IF renames /\ rename_ok
                                                   THEN bundle_file ELSE None,
                                   ret |-> IF after.raised THEN "raised" ELSE after.ret])
          /\ IF after.raised
             THEN /\ pc' = "raised"
                  /\ UNCHANGED <<success_count, failed_tasks, fi, mi>>
             ELSE /\ success_count' = CountSuccess(success, success_count)
                  /\ failed_tasks' = RecordFailure(success, failed_tasks, task.txt_file,
                                                   task.mode_suffix)
                  /\ IF mi < Len(selected_modes)
                     THEN mi' = mi + 1 /\ fi' = fi /\ pc' = "task_begin"
                     ELSE IF fi < Len(txt_files)
                          THEN mi' = 1 /\ fi' = fi + 1 /\ pc' = "task_begin"
                          ELSE UNCHANGED <<fi, mi>> /\ pc' = "sweep"
  /\ UNCHANGED <<args, additional_args, mode_tokens, console, selected_modes, src, outdir_exists,
                 cwd_bundles, txt_files, total_tasks, completed>>

---------------------------------------------------------------------------
(* The end of batch_process_multimode. *)

\* cleanup_bundle_files: every bundle file of the working directory is
\* removed, but those whose os.remove fails.
Sweep ==
  /\ pc = "sweep"
  /\ \E kept \in SUBSET cwd_bundles :
       /\ faults + Cardinality(kept) <= MaxFaults
       /\ faults' = faults + Cardinality(kept)
       /\ cwd_bundles' = kept
  /\ pc' = "summary"
  /\ UNCHANGED <<args, additional_args, mode_tokens, console, selected_modes, fs, src,
                 outdir_exists, outdir, tool_output, txt_files, fi, mi, total_tasks,
                 completed, success_count, failed_tasks, task, runs>>

\* The final summary; the average divides by total_tasks.
Summary ==
  /\ pc = "summary"
  /\ IF total_tasks = 0
     THEN pc' = "raised" /\ UNCHANGED console
     ELSE /\ console' = Append(console, [kind |-> "summary",
                                         about |-> [success |-> success_count,
                                                    total |-> total_tasks,
                                                    failed |-> failed_tasks]])
          /\ pc' = "done"
  /\ UNCHANGED <<args, additional_args, mode_tokens, selected_modes, fs, src, outdir_exists,
                 outdir, tool_output, cwd_bundles, txt_files, fi, mi, total_tasks,
                 completed, success_count, failed_tasks, task, runs, faults>>

---------------------------------------------------------------------------
(* The runs checked: the program started on a directory and a mode list. *)

\* --modes tokens, each with the preset key it stands for (None: no preset).
TokenSamples ==
  {[text |-> "standard", key |-> "standard"],
   [text |-> " GPT4o", key |-> "gpt4o"],
   [text |-> "Claude\t", key |-> "claude"],
   [text |-> "bogus", key |-> None],
   [text |-> "", key |-> None],
   [text |-> "stand ard", key |-> None]}

TokenLists == UNION {[1..n -> TokenSamples] : n \in 1..MaxTokens}

RECURSIVE JoinComma(_)
JoinComma(tokens) ==
  IF tokens = <<>> THEN ""
  ELSE IF Len(tokens) = 1 THEN tokens[1].text
       ELSE tokens[1].text \o "," \o JoinComma(Tail(tokens))

LongName ==
  "a-report-whose-file-name-is-longer-than-the-seventy-two-characters-kept-for-name.txt"

\* What each input file holds.
ContentOf(name) ==
  CASE name = "report.txt" -> <<72, 105>>
    [] name = "notes.txt" -> <<239, 187, 191, 233>>
    [] name = "X.txt" -> <<72, 195, 169, 13, 10>>
    [] name = "temp_X.txt" -> <<79, 75>>
    [] OTHER -> <<65>>

Std == [text |-> "standard", key |-> "standard"]
Gpt == [text |-> "gpt4o", key |-> "gpt4o"]
Mini == [text |-> "gpt4o-mini", key |-> "gpt4o-mini"]

NoOptions ==
  [extractions |-> None, tlp_level |-> "clear",
   confidence |-> [given |-> FALSE, value |-> 0], labels |-> None]

Scenarios ==
  {[files |-> {"report.txt", "notes.txt"}, tokens |-> <<Std, Gpt>>,
    bundles |-> {}, strays |-> {}, options |-> NoOptions],
   [files |-> {"X.txt", "temp_X.txt"}, tokens |-> <<Std>>,
    bundles |-> {<<0, 1>>}, strays |-> {},
    options |-> [NoOptions EXCEPT !.confidence = [given |-> TRUE, value |-> 0]]],
   [files |-> {LongName, "readme.md"}, tokens |-> <<Mini>>,
    bundles |-> {}, strays |-> {"bundle--stray.json"},
    options |-> [extractions |-> "ipv4,domain_name", tlp_level |-> "amber",
                 confidence |-> [given |-> TRUE, value |-> 80], labels |-> "apt,report"]],
   [files |-> {"readme.md"}, tokens |-> <<Std>>, bundles |-> {}, strays |-> {},
    options |-> NoOptions]}
  \cup {[files |-> {"report.txt"}, tokens |-> t, bundles |-> {<<0, 1>>}, strays |-> {},
         options |-> NoOptions] : t \in TokenLists}

\* argparse's result for a scenario.
ParsedArgs(sc) ==
  [modes |-> JoinComma(sc.tokens),
   extractions |-> sc.options.extractions,
   tlp_level |-> sc.options.tlp_level,
   confidence |-> sc.options.confidence,
   labels |-> sc.options.labels]

NoSource == [kind |-> None, text |-> <<>>, encoding |-> None]

Init ==
  \E sc \in Scenarios :
    /\ pc = "main"
    /\ mode_tokens = sc.tokens
    /\ args = ParsedArgs(sc)
    /\ additional_args = <<>>
    /\ console = <<>>
    /\ selected_modes = <<>>
    /\ fs = [n \in sc.files |-> ContentOf(n)]
    /\ src = NoSource
    /\ outdir_exists = FALSE
    /\ outdir = NoFiles
    /\ tool_output = sc.bundles
    /\ cwd_bundles = sc.strays
    /\ txt_files = <<>>
    /\ fi = 0
    /\ mi = 0
    /\ total_tasks = 0
    /\ completed = 0
    /\ success_count = 0
    /\ failed_tasks = <<>>
    /\ task = NoTask
    /\ runs = <<>>
    /\ faults = 0

Next == Main \/ BatchStart \/ TaskBegin \/ RunConverter \/ TaskFinish \/ Sweep \/ Summary

Spec == Init /\ [][Next]_vars

---------------------------------------------------------------------------
(* create_temp_utf8_file on its own: one file, written in a known encoding *)
(* or holding arbitrary bytes, is normalized.                              *)

\* UnicodeEncodeError: a sequence that is no file content.
EncodeError == <<-1>>

Latin1Encode(t) == IF \E i \in 1..Len(t) : t[i] > 255 THEN EncodeError ELSE t

Cp1252Byte(c) ==
  IF c < 128 \/ (c >= 160 /\ c <= 255) THEN c
  ELSE IF c # 0 /\ \E i \in 1..Len(Cp1252High) : Cp1252High[i] = c
       THEN 127 + CHOOSE i \in 1..Len(Cp1252High) : Cp1252High[i] = c
       ELSE -1

Cp1252Encode(t) ==
  IF \E i \in 1..Len(t) : Cp1252Byte(t[i]) = -1 THEN EncodeError
  ELSE [i \in 1..Len(t) |-> Cp1252Byte(t[i])]

\* The bytes of a file holding text t, written in the given encoding.
Encode(encoding, t) ==
  CASE encoding = "utf-8-sig" -> Utf8Bom \o Utf8Encode(t)
    [] encoding = "utf-8" -> Utf8Encode(t)
    [] encoding = "latin-1" -> Latin1Encode(t)
    [] encoding = "cp1252" -> Cp1252Encode(t)
    [] encoding = "windows-1252" -> Cp1252Encode(t)

CandidateEncodings == {"utf-8-sig", "utf-8", "latin-1", "cp1252", "windows-1252"}

\* A, CR, LF, U+0080, U+009D, U+00BB, U+00C3, U+00EF, the euro sign, U+FEFF
TextAlphabet == {65, CR, LF, 128, X9D, 187, 195, 239, 8364, BOM}
\* A, CR, and the bytes of UTF-8 sequences and of its byte order mark
RawAlphabet == {65, CR, X9D, 169, 187, 191, 194, 195, 239}

SeqsUpTo(S, n) == UNION {[1..k -> S] : k \in 0..n}

Sources ==
  {[kind |-> "text", text |-> t, encoding |-> e] :
     t \in SeqsUpTo(TextAlphabet, MaxTextLen), e \in CandidateEncodings}
  \cup {[kind |-> "raw", text |-> b, encoding |-> None] :
          b \in SeqsUpTo(RawAlphabet, MaxRawLen)}

SourceBytes(source) ==
  IF source.kind = "raw" THEN source.text ELSE Encode(source.encoding, source.text)

EncFile == "input.txt"

InitEnc ==
  \E source \in Sources :
    /\ SourceBytes(source) # EncodeError
    /\ pc = "normalize"
    /\ src = source
    /\ fs = Put(NoFiles, EncFile, SourceBytes(source))
    /\ mode_tokens = <<>>
    /\ args = NoOptions @@ [modes |-> ""]
    /\ additional_args = <<>>
    /\ console = <<>>
    /\ selected_modes = <<>>
    /\ outdir_exists = FALSE
    /\ outdir = NoFiles
    /\ tool_output = {}
    /\ cwd_bundles = {}
    /\ txt_files = <<>>
    /\ fi = 0
    /\ mi = 0
    /\ total_tasks = 0
    /\ completed = 0
    /\ success_count = 0
    /\ failed_tasks = <<>>
    /\ task = NoTask
    /\ runs = <<>>
    /\ faults = 0

\* One call of create_temp_utf8_file.
Normalize ==
  /\ pc = "normalize"
  /\ \E io \in IoOutcomes(EncFile) :
       LET made == create_temp_utf8_file(fs, EncFile, io)
       IN /\ fs' = made.dir
          /\ faults' = IF io = "ok" THEN faults ELSE faults + 1
          /\ task' = [NoTask EXCEPT !.txt_file = EncFile, !.temp_file = made.temp_file]
          /\ pc' = IF made.raised THEN "normalize_raised" ELSE "normalized"
  /\ UNCHANGED <<args, additional_args, mode_tokens, console, selected_modes, src, outdir_exists,
                 outdir, tool_output, cwd_bundles, txt_files, fi, mi, total_tasks,
                 completed, success_count, failed_tasks, runs>>

NextEnc == Normalize

SpecEnc == InitEnc /\ [][NextEnc]_vars

---------------------------------------------------------------------------
(* The properties. *)

Range(f) == {f[i] : i \in DOMAIN f}

\* process_single_file has returned or raised, and no later task has begun.
TaskOver == task.ret # None

TaskReturned == TaskOver /\ task.ret # "raised"

\* The name of the scratch file of the task.
ScratchOf(txt_file) == "temp_" \o txt_file

\* C1: once process_single_file has returned or raised, the scratch file of
\* its task does not exist, whatever the exit path.
C1_ScratchNeverPersists ==
  TaskOver => ScratchOf(task.txt_file) \notin DOMAIN fs

\* C2: no failure of a task aborts the batch: no task ends the program with
\* an exception, and every task that failed is in failed_tasks.
C2_TaskFailureNeverAborts ==
  /\ pc # "raised"
  /\ \A i \in 1..Len(runs) :
       /\ runs[i].ret # "raised"
       /\ (~runs[i].ret[1] =>
             <<PathJoin(input_dir, runs[i].txt_file), runs[i].mode_suffix>>
               \in Range(failed_tasks))

\* The file name a task delivers under: the input name without ".txt", the
\* suffix of the mode, ".json".
ExpectedOutputName(txt_file, mode_suffix) ==
  SubSeq(txt_file, 1, Len(txt_file) - 4) \o mode_suffix \o ".json"

\* The task returned success with the one new bundle moved under its name.
Delivered ==
  LET name == ExpectedOutputName(task.txt_file, task.mode_suffix)
  IN /\ task.ret = <<TRUE, PathJoin(output_dir, name)>>
     /\ name \in DOMAIN outdir
     /\ outdir[name] \in task.new_bundles
     /\ task.new_bundles \cap tool_output = {}

\* C3 as stated: exit status zero and exactly one new bundle file give
\* (True, output_dir/<full stem><suffix>.json), the bundle moved there.
C3_OneNewBundleDelivered ==
  (TaskOver /\ task.run.returncode_zero /\ Cardinality(task.new_bundles) = 1)
    => Delivered

\* C3, amended: the same, given also that the converter's output decoded
\* (subprocess.run returned) and the move did not fail.
C3_OneNewBundleDeliveredIfMoved ==
  (/\ TaskOver
   /\ task.run.returncode_zero
   /\ Cardinality(task.new_bundles) = 1
   /\ task.run.output_decodes
   /\ ~task.rename_failed)
    => Delivered

C3_Witness ==
  /\ TaskOver
  /\ task.run.returncode_zero
  /\ task.run.output_decodes
  /\ Cardinality(task.new_bundles) = 1
  /\ ~task.rename_failed
  /\ Len(task.file_name) > NameLimit
  /\ task.cmd.name # task.file_name

\* C4: exit status zero with no new bundle file gives (False, None) and
\* leaves the output directory as it was.
C4_NoNewBundleFails ==
  (TaskOver /\ task.run.returncode_zero /\ task.new_bundles = {})
    => (task.ret = <<FALSE, None>> /\ outdir = task.outdir_before)

C4_Witness ==
  /\ TaskOver
  /\ task.run.returncode_zero
  /\ task.run.output_decodes
  /\ task.new_bundles = {}
  /\ task.existing_bundles # {}
  /\ task.ret = <<FALSE, None>>

\* The (file, mode) pairs of the runs that returned failure, in order.
RECURSIVE FailedPairs(_)
FailedPairs(rs) ==
  IF rs = <<>> THEN <<>>
  ELSE (IF Head(rs).ret # "raised" /\ ~Head(rs).ret[1]
        THEN <<<<PathJoin(input_dir, Head(rs).txt_file), Head(rs).mode_suffix>>>>
        ELSE <<>>) \o FailedPairs(Tail(rs))

SummaryPrinted == console # <<>> /\ console[Len(console)].kind = "summary"

\* C5: at the final summary every task of files x modes has run once, in
\* order; success_count and failed_tasks account for all of them, and
\* failed_tasks holds the pairs that returned failure; the summary prints
\* these numbers (3 of 4 and one pair when one of four tasks failed).
C5_SummaryAccountsForEveryTask ==
  (pc = "summary" \/ SummaryPrinted) =>
    LET m == Len(selected_modes)
        succeeded == {i \in 1..Len(runs) : runs[i].ret # "raised" /\ runs[i].ret[1]}
    IN /\ total_tasks = Len(txt_files) * m
       /\ Len(runs) = total_tasks
       /\ \A i \in 1..Len(runs) :
            /\ runs[i].txt_file = txt_files[((i - 1) \div m) + 1]
            /\ runs[i].mode_suffix = selected_modes[((i - 1) % m) + 1][1]
            /\ runs[i].ret # "raised"
       /\ success_count = Cardinality(succeeded)
       /\ failed_tasks = FailedPairs(runs)
       /\ success_count + Len(failed_tasks) = total_tasks
       /\ (SummaryPrinted =>
             LET printed == console[Len(console)].about
             IN /\ printed.success = Cardinality(succeeded)
                /\ printed.total = Len(txt_files) * m
                /\ printed.failed = FailedPairs(runs)
                /\ (Len(txt_files) = 2 /\ m = 2 /\ Cardinality(succeeded) = 3
                      => printed.success = 3 /\ printed.total = 4
                         /\ Len(printed.failed) = 1))

C5_Witness ==
  /\ pc = "done"
  /\ SummaryPrinted
  /\ Len(txt_files) = 2
  /\ Len(selected_modes) = 2
  /\ Cardinality({i \in 1..Len(runs) : runs[i].ret = <<FALSE, None>>}) = 1
  /\ console[Len(console)].about.success = 3
  /\ console[Len(console)].about.total = 4
  /\ Len(console[Len(console)].about.failed) = 1

\* What the tokens of --modes stand for.
KnownTokens == SelectSeq(mode_tokens, LAMBDA t : t.key # None)
UnknownTokens == SelectSeq(mode_tokens, LAMBDA t : t.key = None)
Warnings == SelectSeq(console, LAMBDA line : line.kind = "warning")

\* C6: the selected modes are the presets of the known tokens, in order;
\* each unknown token is warned about; with no known token main prints an
\* error and ends: no output directory, no task, no converter run, no file.
C6_UnknownModesSkipped ==
  pc # "main" =>
    /\ selected_modes = [i \in 1..Len(KnownTokens) |-> PRESET_MODES[KnownTokens[i].key]]
    /\ [i \in 1..Len(Warnings) |-> Warnings[i].about]
         = [i \in 1..Len(UnknownTokens) |-> UnknownTokens[i].text]
    /\ (KnownTokens = <<>> =>
          /\ pc = "done"
          /\ console[Len(console)].kind = "error"
          /\ ~outdir_exists
          /\ outdir = NoFiles
          /\ task = NoTask
          /\ runs = <<>>
          /\ completed = 0
          /\ \A b \in tool_output : b[1] = 0)

C6_Witness ==
  /\ pc = "done"
  /\ Len(mode_tokens) = 2
  /\ KnownTokens = <<>>
  /\ Len(Warnings) = 2
  /\ console[Len(console)].kind = "error"

Stripped(t) == SelectSeq(t, LAMBDA c : c # X9D /\ c # BOM)

\* C7 as stated: a file written in a candidate encoding is normalized to the
\* UTF-8 encoding of its text without U+009D and U+FEFF.
C7_EveryEncodingRoundTrips ==
  (pc = "normalized" /\ src.kind = "text")
    => fs[ScratchOf(EncFile)] = Utf8Encode(Stripped(src.text))

IsAscii(t) == \A i \in 1..Len(t) : t[i] < 128

\* The bytes are not text to utf-8-sig and utf-8: not well-formed UTF-8, and
\* not the cut-off byte order mark that utf-8-sig reads as nothing.
NotUtf8(b) == Utf8Decode(b) = DecodeError /\ b \notin {<<239>>, <<239, 187>>}

\* The cases in which the file's text is read back as it was written.
ReadBack ==
  /\ src.kind = "text"
  /\ CR \notin Range(src.text)
  /\ \/ src.encoding \in {"utf-8-sig", "utf-8"}
     \/ /\ src.encoding = "latin-1"
        /\ IsAscii(src.text) \/ NotUtf8(fs[EncFile])
     \/ /\ src.encoding \in {"cp1252", "windows-1252"}
        /\ IsAscii(src.text) \/ NotUtf8(fs[EncFile])
        /\ \A i \in 1..Len(src.text) : src.text[i] <= 255

\* C7, amended: the round trip holds for text without carriage returns
\* written in utf-8-sig or utf-8; for text written in latin-1 whose bytes
\* are ASCII or are not decoded by utf-8-sig or utf-8; and for such text
\* written in cp1252 or windows-1252 when it has no character of cp1252's
\* 0x80..0x9F block.
C7_RoundTripWhereReadBack ==
  (pc = "normalized" /\ ReadBack)
    => fs[ScratchOf(EncFile)] = Utf8Encode(Stripped(src.text))

C7_Witness ==
  /\ pc = "normalized"
  /\ ReadBack
  /\ src.encoding = "latin-1"
  /\ src.text = <<128, 195, X9D>>
  /\ fs[ScratchOf(EncFile)] = <<194, 128, 195, 131>>

\* C8: whatever the file held and however it was decoded, the scratch file
\* holds well-formed UTF-8 with no U+FEFF and no U+009D: the decoded text
\* with exactly these removed.
C8_ScratchHasNoBomNo9D ==
  pc = "normalized" =>
    LET written == Utf8Decode(fs[ScratchOf(EncFile)])
        decoded == DecodedContent(fs[EncFile])
    IN /\ written # DecodeError
       /\ BOM \notin Range(written)
       /\ X9D \notin Range(written)
       /\ written = SelectSeq(decoded, LAMBDA c : c \notin {BOM, X9D})

C8_Witness ==
  /\ pc = "normalized"
  /\ DecodedContent(fs[EncFile]) = <<BOM, 65, BOM>>
  /\ fs[ScratchOf(EncFile)] = <<65>>

\* C9: a bundle a task delivers was written by that task's own converter
\* run: it was not in the task's snapshot, and no bundle left by an earlier
\* task (or there before the batch) is ever in the output directory.
C9_NeverDeliversAnOldBundle ==
  /\ \A i \in 1..Len(runs) :
       runs[i].bundle_file # None => runs[i].bundle_file[1] = i
  /\ (TaskOver /\ task.bundle_file # None) => task.bundle_file \notin task.existing_bundles
  /\ \A name \in DOMAIN outdir :
       \E i \in 1..Len(runs) :
         /\ runs[i].ret = <<TRUE, PathJoin(output_dir, name)>>
         /\ outdir[name][1] = i

C9_Witness ==
  /\ TaskReturned
  /\ task.ret[1]
  /\ task.bundle_file # None
  /\ \E b \in task.existing_bundles : b[1] >= 1
  /\ \E b \in tool_output : b[1] = Len(runs)

\* C10: no discovered input file is ever modified or deleted.
C10_InputFilesUntouched ==
  \A i \in 1..Len(txt_files) :
    /\ txt_files[i] \in DOMAIN fs
    /\ fs[txt_files[i]] = ContentOf(txt_files[i])

=============================================================================
